---- MODULE Spec2Model ----
(***************************************************************************)
(* A model of navaid_api/main.py: the three global catalogs filled by the  *)
(* startup routine (lifespan) and the nine query handlers of the FastAPI   *)
(* application that read them.                                             *)
(*                                                                         *)
(* A token (a path parameter) is a sequence of one-character strings, so   *)
(* that str.upper(), the regular expression of the ICAO fix notation and   *)
(* int() are computed character by character.  Latitudes and longitudes    *)
(* are integers in micro-degrees.                                          *)
(***************************************************************************)
EXTENDS Integers, Sequences, FiniteSets, TLC

VARIABLES
    navFile,    \* NAV_PATH: whether it exists, and its decoded records
    fixFile,    \* FIX_PATH
    aptFile,    \* APT_PATH
    NAVAIDS,    \* main.NAVAIDS
    FIXES,      \* main.FIXES
    AIRPORTS,   \* main.AIRPORTS
    pc,         \* where lifespan stands: "nav", "fix", "apt", then "serving"
    request,    \* the query being answered, or NoRequest
    response    \* its outcome, or NoResponse

vars == <<navFile, fixFile, aptFile, NAVAIDS, FIXES, AIRPORTS, pc, request, response>>

-----------------------------------------------------------------------------
(* Characters and strings *)

LowerLetters == <<"a","b","c","d","e","f","g","h","i","j","k","l","m",
                  "n","o","p","q","r","s","t","u","v","w","x","y","z">>
UpperLetters == <<"A","B","C","D","E","F","G","H","I","J","K","L","M",
                  "N","O","P","Q","R","S","T","U","V","W","X","Y","Z">>
DigitChars == <<"0","1","2","3","4","5","6","7","8","9">>

IsLower(c) == \E i \in 1..26 : LowerLetters[i] = c
\* [A-Z]
IsUpper(c) == \E i \in 1..26 : UpperLetters[i] = c
\* \d (ASCII digits)
IsDigit(c) == \E i \in 1..10 : DigitChars[i] = c
DigitVal(c) == (CHOOSE i \in 1..10 : DigitChars[i] = c) - 1

\* str.upper(), on ASCII
upper(s) ==
    [i \in 1..Len(s) |->
        IF IsLower(s[i]) THEN UpperLetters[CHOOSE j \in 1..26 : LowerLetters[j] = s[i]]
        ELSE s[i]]

\* int() of a string of digits
RECURSIVE int(_)
int(ds) ==
    IF ds = <<>> THEN 0
    ELSE 10 * int(SubSeq(ds, 1, Len(ds) - 1)) + DigitVal(ds[Len(ds)])

-----------------------------------------------------------------------------
(* The ICAO fix notation: re.match(r"^([A-Z]{2,5})(\d{3})(\d{3})$", identifier) *)

\* Where "$" matches: at the end of the string, and just before a newline
\* that ends the string.
DollarPositions(s) ==
    {Len(s)} \cup (IF Len(s) >= 1 /\ s[Len(s)] = "\n" THEN {Len(s) - 1} ELSE {})

\* The lengths n of group 1 with which the whole pattern matches.
GroupOneLengths(s) ==
    {n \in 2..5 :
        /\ n + 6 \in DollarPositions(s)
        /\ \A i \in 1..n : IsUpper(s[i])
        /\ \A i \in (n + 1)..(n + 6) : IsDigit(s[i])}

NoMatch == [matched |-> FALSE]

re_match(s) ==
    IF GroupOneLengths(s) = {} THEN NoMatch
    ELSE LET n == CHOOSE m \in GroupOneLengths(s) :
                      \A k \in GroupOneLengths(s) : k <= m   \* {2,5} is greedy
         IN  [matched |-> TRUE,
              group1 |-> SubSeq(s, 1, n),
              group2 |-> SubSeq(s, n + 1, n + 3),
              group3 |-> SubSeq(s, n + 4, n + 6)]

\* The resolver inlined in get_navaid and get_point: the match and the
\* three values taken from it.
resolve(identifier) ==
    LET match == re_match(identifier)
    IN  IF match.matched
        THEN [matched |-> TRUE,
              nav_id |-> match.group1,
              radial |-> int(match.group2),
              distance |-> int(match.group3)]
        ELSE NoMatch

-----------------------------------------------------------------------------
(* Catalogs: dict[str, entity] *)

None == [is_none |-> TRUE]
EmptyCatalog == <<>>

\* dict.get(key)
Get(catalog, key) == IF key \in DOMAIN catalog THEN catalog[key] ELSE None

\* dict[key] = value
Put(catalog, key, value) ==
    [k \in (DOMAIN catalog) \cup {key} |-> IF k = key THEN value ELSE catalog[k]]

\* parser.load_navaids, parser.load_fixes: every decoded record is inserted
\* under its identifier, a later record replacing an earlier one.
RECURSIVE load_by_identifier(_)
load_by_identifier(records) ==
    IF records = <<>> THEN EmptyCatalog
    ELSE LET r == records[Len(records)]
         IN  Put(load_by_identifier(SubSeq(records, 1, Len(records) - 1)), r.identifier, r)

load_navaids(records) == load_by_identifier(records)
load_fixes(records) == load_by_identifier(records)

\* parser.load_airports: also inserted under the ICAO code when it is
\* present and non-empty.
RECURSIVE load_airports(_)
load_airports(records) ==
    IF records = <<>> THEN EmptyCatalog
    ELSE LET r == records[Len(records)]
             before == load_airports(SubSeq(records, 1, Len(records) - 1))
             byId == Put(before, r.identifier, r)
         IN  IF r.icao # <<>> THEN Put(byId, r.icao, r) ELSE byId

-----------------------------------------------------------------------------
(* The projector *)

\* distance is a float: float("inf") is kept as the largest integer, so that
\* it is above every finite distance and inf < 0 is false, as in Python.
inf == 2147483647

\* What math.cos and math.sin raise on an infinity: "math domain error".
ValueError == [raised |-> "ValueError"]

\* A coordinate is a float of degrees. It is kept as
\*   half_micro: the multiple of 0.0000005 degrees it is nearest to,
\*   ulps: how many units in the last place it lies above that multiple,
\*   drift: by how many units in the last place the conversions of
\*          calculate_destination (math.radians, math.sin, math.asin,
\*          math.degrees, none of them exact) displace it.
\* A unit in the last place of a coordinate is below 3e-14 degrees.
Float(half_micro, ulps, drift) ==
    [half_micro |-> half_micro, ulps |-> ulps, drift |-> drift]

\* The float nearest to micro millionths of a degree.
Deg6(micro) == Float(2 * micro, 0, 0)

\* round(x, 6), in millionths of a degree: to the nearest, a tie to the even
\* one.
round(x) ==
    LET below == (x.half_micro - 1) \div 2
    IN  IF x.half_micro % 2 = 0 THEN x.half_micro \div 2
        ELSE IF x.ulps > 0 THEN below + 1
        ELSE IF x.ulps < 0 THEN below
        ELSE IF below % 2 = 0 THEN below ELSE below + 1

\* math.degrees of what the trigonometry returns at distance 0 from
\* math.radians(x): x again, up to the drift.
converted(x) == [x EXCEPT !.ulps = @ + x.drift]

\* calculate_destination. With an infinite distance angular_dist is
\* infinite and math.cos(angular_dist), the first call on it, raises. With
\* distance 0, cos(angular_dist) is 1.0 and sin(angular_dist) is 0.0, so
\* dest_lat is asin(sin(lat_rad)) and dest_lon is lon_rad + 0.0 for every
\* bearing, and the result is the two of them in degrees, rounded. For the
\* other distances the spherical forward solution is kept as the
\* unevaluated application to the four arguments; two results are equal
\* when the arguments are.
calculate_destination(lat, lon, bearing, distance_nm) ==
    IF distance_nm = inf THEN ValueError
    ELSE IF distance_nm = 0
    THEN <<[coordinate |-> "dest_lat", rounded |-> round(converted(lat))],
           [coordinate |-> "dest_lon", rounded |-> round(converted(lon))]>>
    ELSE <<[coordinate |-> "dest_lat", lat |-> lat, lon |-> lon,
            bearing |-> bearing, distance_nm |-> distance_nm],
           [coordinate |-> "dest_lon", lat |-> lat, lon |-> lon,
            bearing |-> bearing, distance_nm |-> distance_nm]>>

-----------------------------------------------------------------------------
(* Outcomes *)

Ok(body) == [status |-> 200, body |-> body]
\* raise HTTPException(status_code=..., detail=...)
HTTPException(status_code, detail) == [status |-> status_code, detail |-> detail]
\* An exception that is not an HTTPException leaves the handler: the
\* caller is answered 500 and gets no body of the handler.
Unhandled(exception) == [status |-> 500, exception |-> exception]

\* f"{prefix}'{identifier}' not found"
NotFoundDetail(prefix, identifier) ==
    [prefix |-> prefix, identifier |-> identifier, suffix |-> " not found"]

AirportBody(airport) ==
    [identifier |-> airport.identifier, icao |-> airport.icao, name |-> airport.name,
     city |-> airport.city, state |-> airport.state, type |-> airport.type,
     latitude |-> airport.latitude, longitude |-> airport.longitude]

NavaidBody(navaid) ==
    [identifier |-> navaid.identifier, name |-> navaid.name, type |-> navaid.type,
     latitude |-> navaid.latitude, longitude |-> navaid.longitude]

FixBody(fix) ==
    [identifier |-> fix.identifier, type |-> "FIX", state |-> fix.state,
     latitude |-> fix.latitude, longitude |-> fix.longitude]

-----------------------------------------------------------------------------
(* get_radial_distance *)

\* find_reference searching the navaids before the airports.
find_reference_navaids_first(identifier, airports_only, navaids_only, waypoints_only) ==
    IF airports_only THEN [ref |-> Get(AIRPORTS, identifier), ref_type |-> "airport"]
    ELSE IF navaids_only THEN [ref |-> Get(NAVAIDS, identifier), ref_type |-> "navaid"]
    ELSE IF waypoints_only THEN [ref |-> Get(FIXES, identifier), ref_type |-> "waypoint"]
    ELSE IF Get(NAVAIDS, identifier) # None
         THEN [ref |-> Get(NAVAIDS, identifier), ref_type |-> "navaid"]
    ELSE IF Get(AIRPORTS, identifier) # None
         THEN [ref |-> Get(AIRPORTS, identifier), ref_type |-> "airport"]
    ELSE IF Get(FIXES, identifier) # None
         THEN [ref |-> Get(FIXES, identifier), ref_type |-> "waypoint"]
    ELSE [ref |-> None, ref_type |-> None]

\* Lines 219-243: the reference and its type.
find_reference(identifier, airports_only, navaids_only, waypoints_only) ==
    IF airports_only THEN [ref |-> Get(AIRPORTS, identifier), ref_type |-> "airport"]
    ELSE IF navaids_only THEN [ref |-> Get(NAVAIDS, identifier), ref_type |-> "navaid"]
    ELSE IF waypoints_only THEN [ref |-> Get(FIXES, identifier), ref_type |-> "waypoint"]
    ELSE IF Get(AIRPORTS, identifier) # None
         THEN [ref |-> Get(AIRPORTS, identifier), ref_type |-> "airport"]
    ELSE IF Get(NAVAIDS, identifier) # None
         THEN [ref |-> Get(NAVAIDS, identifier), ref_type |-> "navaid"]
    ELSE IF Get(FIXES, identifier) # None
         THEN [ref |-> Get(FIXES, identifier), ref_type |-> "waypoint"]
    ELSE [ref |-> None, ref_type |-> None]

\* Lines 245-253: the 404 of the kind asked for.
not_found(identifier, airports_only, navaids_only, waypoints_only) ==
    IF airports_only THEN HTTPException(404, NotFoundDetail("Airport ", identifier))
    ELSE IF navaids_only THEN HTTPException(404, NotFoundDetail("NAVAID ", identifier))
    ELSE IF waypoints_only THEN HTTPException(404, NotFoundDetail("Waypoint ", identifier))
    ELSE HTTPException(404, NotFoundDetail("", identifier))

RadialDetail == [text |-> "Radial must be 0-360"]
DistanceDetail == [text |-> "Distance must be positive"]

\* get_radial_distance validating the radial and the distance before it
\* looks the reference up.
get_radial_distance_validating_first(identifier, radial, distance, airports_only, navaids_only, waypoints_only) ==
    LET found == find_reference(identifier, airports_only, navaids_only, waypoints_only)
        ref == found.ref
    IN  IF ~(0 <= radial /\ radial <= 360) THEN HTTPException(400, RadialDetail)
        ELSE IF distance < 0 THEN HTTPException(400, DistanceDetail)
        ELSE IF ref = None
        THEN not_found(identifier, airports_only, navaids_only, waypoints_only)
        ELSE LET dest == calculate_destination(ref.latitude, ref.longitude, radial, distance)
             IN  IF dest = ValueError THEN Unhandled(dest)
                 ELSE Ok([reference |-> ref.identifier, type |-> found.ref_type,
                          radial |-> radial, distance_nm |-> distance,
                          latitude |-> dest[1], longitude |-> dest[2]])

\* get_radial_distance refusing the radial 360.
get_radial_distance_below_360(identifier, radial, distance, airports_only, navaids_only, waypoints_only) ==
    LET found == find_reference(identifier, airports_only, navaids_only, waypoints_only)
        ref == found.ref
    IN  IF ref = None
        THEN not_found(identifier, airports_only, navaids_only, waypoints_only)
        ELSE IF ~(0 <= radial /\ radial < 360) THEN HTTPException(400, RadialDetail)
        ELSE IF distance < 0 THEN HTTPException(400, DistanceDetail)
        ELSE LET dest == calculate_destination(ref.latitude, ref.longitude, radial, distance)
             IN  IF dest = ValueError THEN Unhandled(dest)
                 ELSE Ok([reference |-> ref.identifier, type |-> found.ref_type,
                          radial |-> radial, distance_nm |-> distance,
                          latitude |-> dest[1], longitude |-> dest[2]])

get_radial_distance(identifier, radial, distance, airports_only, navaids_only, waypoints_only) ==
    LET found == find_reference(identifier, airports_only, navaids_only, waypoints_only)
        ref == found.ref
    IN  IF ref = None
        THEN not_found(identifier, airports_only, navaids_only, waypoints_only)
        ELSE IF ~(0 <= radial /\ radial <= 360) THEN HTTPException(400, RadialDetail)
        ELSE IF distance < 0 THEN HTTPException(400, DistanceDetail)
        ELSE LET dest == calculate_destination(ref.latitude, ref.longitude, radial, distance)
             IN  IF dest = ValueError THEN Unhandled(dest)
                 ELSE Ok([reference |-> ref.identifier, type |-> found.ref_type,
                          radial |-> radial, distance_nm |-> distance,
                          latitude |-> dest[1], longitude |-> dest[2]])

-----------------------------------------------------------------------------
(* The route handlers, as functions of their arguments and the catalogs *)

health ==
    Ok([status |-> "ok",
        navaid_count |-> Cardinality(DOMAIN NAVAIDS),
        fix_count |-> Cardinality(DOMAIN FIXES),
        airport_count |-> Cardinality(DOMAIN AIRPORTS)])

\* get_airport reporting the identifier asked for as the ICAO code.
get_airport_icao_from_key(identifier) ==
    LET id == upper(identifier)
        airport == Get(AIRPORTS, id)
    IN  IF airport # None THEN Ok([AirportBody(airport) EXCEPT !.icao = id])
        ELSE HTTPException(404, NotFoundDetail("Airport ", id))

get_airport(identifier) ==
    LET id == upper(identifier)
        airport == Get(AIRPORTS, id)
    IN  IF airport # None THEN Ok(AirportBody(airport))
        ELSE HTTPException(404, NotFoundDetail("Airport ", id))

\* get_waypoint looking the identifier up as it was given.
get_waypoint_as_given(identifier) ==
    LET fix == Get(FIXES, identifier)
    IN  IF fix # None THEN Ok(FixBody(fix))
        ELSE HTTPException(404, NotFoundDetail("Waypoint ", identifier))

get_waypoint(identifier) ==
    LET id == upper(identifier)
        fix == Get(FIXES, id)
    IN  IF fix # None THEN Ok(FixBody(fix))
        ELSE HTTPException(404, NotFoundDetail("Waypoint ", id))

get_navaid(identifier) ==
    LET id == upper(identifier)
        res == resolve(id)
        navaid == Get(NAVAIDS, id)
    IN  IF res.matched
        THEN get_radial_distance(res.nav_id, res.radial, res.distance, FALSE, FALSE, FALSE)
        ELSE IF navaid # None THEN Ok(NavaidBody(navaid))
        ELSE HTTPException(404, NotFoundDetail("NAVAID ", id))

\* get_point taking the distance from the first three digits and the radial
\* from the last three.
get_point_swapping_groups(identifier) ==
    LET id == upper(identifier)
        res == resolve(id)
        airport == Get(AIRPORTS, id)
        navaid == Get(NAVAIDS, id)
        fix == Get(FIXES, id)
    IN  IF res.matched
        THEN get_radial_distance(res.nav_id, res.distance, res.radial, FALSE, FALSE, FALSE)
        ELSE IF airport # None THEN Ok(AirportBody(airport))
        ELSE IF navaid # None THEN Ok(NavaidBody(navaid))
        ELSE IF fix # None THEN Ok(FixBody(fix))
        ELSE HTTPException(404, NotFoundDetail("", id))

get_point(identifier) ==
    LET id == upper(identifier)
        res == resolve(id)
        airport == Get(AIRPORTS, id)
        navaid == Get(NAVAIDS, id)
        fix == Get(FIXES, id)
    IN  IF res.matched
        THEN get_radial_distance(res.nav_id, res.radial, res.distance, FALSE, FALSE, FALSE)
        ELSE IF airport # None THEN Ok(AirportBody(airport))
        ELSE IF navaid # None THEN Ok(NavaidBody(navaid))
        ELSE IF fix # None THEN Ok(FixBody(fix))
        ELSE HTTPException(404, NotFoundDetail("", id))

\* get_airport_radial reading the fix notation in its identifier.
get_airport_radial_reading_notation(identifier, radial, distance) ==
    LET res == resolve(upper(identifier))
    IN  IF res.matched
        THEN get_radial_distance(res.nav_id, res.radial, res.distance, TRUE, FALSE, FALSE)
        ELSE get_radial_distance(upper(identifier), radial, distance, TRUE, FALSE, FALSE)

get_airport_radial(identifier, radial, distance) ==
    get_radial_distance(upper(identifier), radial, distance, TRUE, FALSE, FALSE)

get_waypoint_radial(identifier, radial, distance) ==
    get_radial_distance(upper(identifier), radial, distance, FALSE, FALSE, TRUE)

get_navaid_radial(identifier, radial, distance) ==
    get_radial_distance(upper(identifier), radial, distance, FALSE, TRUE, FALSE)

get_point_radial(identifier, radial, distance) ==
    get_radial_distance(upper(identifier), radial, distance, FALSE, FALSE, FALSE)

-----------------------------------------------------------------------------
(* The data the model runs on *)

\* Bounds: the number of decoded records in each source file.
MaxNavRecords == 1
MaxFixRecords == 1
MaxAptRecords == 2

AB == <<"A", "B">>
KAB == <<"K", "A", "B">>
ZZ == <<"Z", "Z">>
\* an identifier that has the shape of the fix notation
AB090010 == <<"A", "B", "0", "9", "0", "0", "1", "0">>

Navaid(identifier, name, type, latitude, longitude) ==
    [identifier |-> identifier, name |-> name, type |-> type,
     latitude |-> latitude, longitude |-> longitude]

Fix(identifier, state, latitude, longitude) ==
    [identifier |-> identifier, state |-> state,
     latitude |-> latitude, longitude |-> longitude]

Airport(identifier, icao, name, city, state, type, latitude, longitude) ==
    [identifier |-> identifier, icao |-> icao, name |-> name, city |-> city,
     state |-> state, type |-> type, latitude |-> latitude, longitude |-> longitude]

NavRecords ==
    {Navaid(AB, "SEATTLE", "VORTAC", Deg6(47435278), Deg6(-122309722))}

FixRecords ==
    {Fix(AB, "WA", Deg6(47462500), Deg6(-122928611)),
     Fix(AB090010, "WA", Deg6(47500000), Deg6(-122500000))}

AptRecords ==
    {Airport(AB, KAB, "SEATTLE-TACOMA INTL", "SEATTLE", "WA", "AIRPORT",
             Deg6(47449000), Deg6(-122309000)),
     Airport(AB, <<>>, "PORTLAND INTL", "PORTLAND", "OR", "AIRPORT",
             Deg6(45588000), Deg6(-122598000))}

\* The sequences over S of length at most n
SeqsUpTo(S, n) == UNION {[1..k -> S] : k \in 0..n}

\* A source file: absent, or present with its decoded records.
Files(S, n) ==
    {[exists |-> FALSE, records |-> <<>>]}
        \cup {[exists |-> TRUE, records |-> rs] : rs \in SeqsUpTo(S, n)}

\* The path parameters the queries are made with: identifiers in upper,
\* lower and mixed case, tokens in the fix notation, and tokens that miss
\* it by one letter, one digit or one trailing character.
PlainTokens ==
    {AB, <<"a", "b">>, <<"A", "b">>, KAB, <<"k", "a", "b">>, ZZ, <<"A", "B", "\n">>}
NotationTokens ==
    {AB090010,
     <<"a", "b", "0", "9", "0", "0", "1", "0">>,
     <<"A", "B", "0", "0", "0", "0", "0", "0">>,
     <<"A", "B", "3", "6", "0", "0", "1", "0">>,
     <<"A", "B", "3", "6", "1", "0", "0", "5">>,
     <<"K", "A", "B", "0", "9", "0", "0", "1", "0">>,
     <<"Z", "Z", "0", "9", "0", "0", "1", "0">>,
     <<"Z", "Z", "9", "9", "9", "0", "1", "0">>}
NearTokens ==
    {<<"A", "0", "9", "0", "0", "1", "0">>,
     <<"A", "B", "C", "D", "E", "F", "0", "9", "0", "0", "1", "0">>,
     <<"A", "B", "0", "9", "0", "0", "1">>,
     <<"A", "B", "0", "9", "0", "0", "1", "0", "0">>,
     <<"A", "B", "0", "9", "0", "0", "1", "0", "\n">>}
Tokens == PlainTokens \cup NotationTokens \cup NearTokens
\* The identifiers given together with an explicit radial and distance.
RadialTokens ==
    {AB, <<"a", "b">>, KAB, <<"k", "a", "b">>, ZZ, AB090010,
     <<"a", "b", "0", "9", "0", "0", "1", "0">>}

Radials == {-1, 0, 90, 360, 361}
Distances == {-5, 0, 10, inf}

NoRequest == [op |-> "none"]
NoResponse == [status |-> 0]

-----------------------------------------------------------------------------
(* The state machine *)

Init ==
    /\ navFile \in Files(NavRecords, MaxNavRecords)
    /\ fixFile \in Files(FixRecords, MaxFixRecords)
    /\ aptFile \in Files(AptRecords, MaxAptRecords)
    /\ NAVAIDS = EmptyCatalog
    /\ FIXES = EmptyCatalog
    /\ AIRPORTS = EmptyCatalog
    /\ pc = "nav"
    /\ request = NoRequest
    /\ response = NoResponse

\* lifespan, lines 23-27
lifespan_navaids ==
    /\ pc = "nav"
    /\ NAVAIDS' = IF navFile.exists THEN load_navaids(navFile.records) ELSE NAVAIDS
    /\ pc' = "fix"
    /\ UNCHANGED <<navFile, fixFile, aptFile, FIXES, AIRPORTS, request, response>>

\* lifespan loading the fixes only when the navaid file exists too.
lifespan_fixes_needing_navaids ==
    /\ pc = "fix"
    /\ FIXES' = IF navFile.exists /\ fixFile.exists
                THEN load_fixes(fixFile.records) ELSE FIXES
    /\ pc' = "apt"
    /\ UNCHANGED <<navFile, fixFile, aptFile, NAVAIDS, AIRPORTS, request, response>>

\* lifespan, lines 29-33
lifespan_fixes ==
    /\ pc = "fix"
    /\ FIXES' = IF fixFile.exists THEN load_fixes(fixFile.records) ELSE FIXES
    /\ pc' = "apt"
    /\ UNCHANGED <<navFile, fixFile, aptFile, NAVAIDS, AIRPORTS, request, response>>

\* lifespan, lines 35-41: after the airports the routine yields and the
\* application serves.
lifespan_airports ==
    /\ pc = "apt"
    /\ AIRPORTS' = IF aptFile.exists THEN load_airports(aptFile.records) ELSE AIRPORTS
    /\ pc' = "serving"
    /\ UNCHANGED <<navFile, fixFile, aptFile, NAVAIDS, FIXES, request, response>>

\* Requests taken while lifespan is still loading.
Idle_while_loading == request = NoRequest

\* The application serves and no request is being answered.
Idle == pc = "serving" /\ request = NoRequest

\* A handler that reads NAVAIDS[identifier] of a dictionary that inserts the
\* keys it misses.
Serve_inserting_misses(req, resp) ==
    /\ request' = req
    /\ response' = resp
    /\ NAVAIDS' = IF req.op = "get_navaid" /\ resp.status = 404
                  THEN Put(NAVAIDS, upper(req.identifier), None)
                  ELSE NAVAIDS
    /\ UNCHANGED <<navFile, fixFile, aptFile, FIXES, AIRPORTS, pc>>

\* A handler runs on a request and leaves its outcome; the files and the
\* catalogs are not assigned.
Serve(req, resp) ==
    /\ request' = req
    /\ response' = resp
    /\ UNCHANGED <<navFile, fixFile, aptFile, NAVAIDS, FIXES, AIRPORTS, pc>>

Plain(op, identifier) == [op |-> op, identifier |-> identifier]
Projected(op, identifier, radial, distance) ==
    [op |-> op, identifier |-> identifier, radial |-> radial, distance |-> distance]

Health == Idle /\ Serve([op |-> "health"], health)

GetAirport ==
    Idle /\ \E t \in Tokens : Serve(Plain("get_airport", t), get_airport(t))
GetWaypoint ==
    Idle /\ \E t \in Tokens : Serve(Plain("get_waypoint", t), get_waypoint(t))
GetNavaid ==
    Idle /\ \E t \in Tokens : Serve(Plain("get_navaid", t), get_navaid(t))
GetPoint ==
    Idle /\ \E t \in Tokens : Serve(Plain("get_point", t), get_point(t))

GetAirportRadial ==
    Idle /\ \E t \in RadialTokens, r \in Radials, d \in Distances :
        Serve(Projected("get_airport_radial", t, r, d), get_airport_radial(t, r, d))
GetWaypointRadial ==
    Idle /\ \E t \in RadialTokens, r \in Radials, d \in Distances :
        Serve(Projected("get_waypoint_radial", t, r, d), get_waypoint_radial(t, r, d))
GetNavaidRadial ==
    Idle /\ \E t \in RadialTokens, r \in Radials, d \in Distances :
        Serve(Projected("get_navaid_radial", t, r, d), get_navaid_radial(t, r, d))
GetPointRadial ==
    Idle /\ \E t \in RadialTokens, r \in Radials, d \in Distances :
        Serve(Projected("get_point_radial", t, r, d), get_point_radial(t, r, d))

\* The outcome is sent and the next request can be taken.
Respond ==
    /\ request # NoRequest
    /\ request' = NoRequest
    /\ response' = NoResponse
    /\ UNCHANGED <<navFile, fixFile, aptFile, NAVAIDS, FIXES, AIRPORTS, pc>>

Next ==
    \/ lifespan_navaids
    \/ lifespan_fixes
    \/ lifespan_airports
    \/ Health
    \/ GetAirport
    \/ GetWaypoint
    \/ GetNavaid
    \/ GetPoint
    \/ GetAirportRadial
    \/ GetWaypointRadial
    \/ GetNavaidRadial
    \/ GetPointRadial
    \/ Respond

Spec == Init /\ [][Next]_vars

-----------------------------------------------------------------------------
(* The resolver on its own *)

\* The triples the fix notation is written from.
RoundTripIds == {AB, KAB, <<"A", "B", "C", "D">>, <<"A", "B", "C", "D", "E">>}
RoundTripBearings == 0..359
RoundTripDistances == {0, 5, 10, 99, 100, 270, 999}

\* n in 0..999 zero-padded to three digits
Pad3(n) ==
    <<DigitChars[(n \div 100) + 1], DigitChars[((n \div 10) % 10) + 1],
      DigitChars[(n % 10) + 1]>>

MakeToken(id, bearing, distance) == id \o Pad3(bearing) \o Pad3(distance)

\* The application serves with all three source files absent.
InitResolver ==
    /\ navFile = [exists |-> FALSE, records |-> <<>>]
    /\ fixFile = [exists |-> FALSE, records |-> <<>>]
    /\ aptFile = [exists |-> FALSE, records |-> <<>>]
    /\ NAVAIDS = EmptyCatalog
    /\ FIXES = EmptyCatalog
    /\ AIRPORTS = EmptyCatalog
    /\ pc = "serving"
    /\ request = NoRequest
    /\ response = NoResponse

\* Lines 107-114 on a token written from a triple.
ResolveMade ==
    /\ Idle
    /\ \E id \in RoundTripIds, b \in RoundTripBearings, d \in RoundTripDistances :
          Serve([op |-> "resolve_made", identifier |-> MakeToken(id, b, d),
                 id |-> id, bearing |-> b, distance |-> d],
                resolve(upper(MakeToken(id, b, d))))

\* Lines 107-114 on any token.
ResolveToken ==
    /\ Idle
    /\ \E t \in Tokens :
          Serve([op |-> "resolve_token", identifier |-> t], resolve(upper(t)))

NextResolver == ResolveMade \/ ResolveToken \/ Respond

SpecResolver == InitResolver /\ [][NextResolver]_vars

-----------------------------------------------------------------------------
(* What a request asks for *)

PlainOps == {"get_airport", "get_waypoint", "get_navaid", "get_point"}
RadialOps == {"get_airport_radial", "get_waypoint_radial", "get_navaid_radial",
              "get_point_radial"}

\* The token of the request in upper case.
ReqId == upper(request.identifier)

\* The fix notation as it is specified: 2 to 5 letters followed by exactly
\* six digits, and nothing else.
IsLetter(c) == IsUpper(c) \/ IsLower(c)
HasNotationShape(t) ==
    /\ Len(t) - 6 \in 2..5
    /\ \A i \in 1..(Len(t) - 6) : IsLetter(t[i])
    /\ \A i \in (Len(t) - 5)..Len(t) : IsDigit(t[i])

\* The value of three decimal digits.
Dec3(ds) == 100 * DigitVal(ds[1]) + 10 * DigitVal(ds[2]) + DigitVal(ds[3])

\* The three parts of a token in the fix notation.
NotationId(t) == SubSeq(t, 1, Len(t) - 6)
NotationBearing(t) == Dec3(SubSeq(t, Len(t) - 5, Len(t) - 3))
NotationDistance(t) == Dec3(SubSeq(t, Len(t) - 2, Len(t)))

\* A bare token in the fix notation, on the two routes that read it.
IsNotationRequest ==
    /\ request.op \in {"get_navaid", "get_point"}
    /\ HasNotationShape(request.identifier)

\* A plain lookup: a bare token that is an identifier.
IsPlainRequest == request.op \in PlainOps /\ ~IsNotationRequest

\* A projected lookup: explicit radial and distance, or the fix notation.
IsProjectedRequest == request.op \in RadialOps \/ IsNotationRequest

\* The reference identifier, radial and distance of a projected lookup.
RefId ==
    IF request.op \in RadialOps THEN ReqId ELSE upper(NotationId(request.identifier))
RefRadial ==
    IF request.op \in RadialOps THEN request.radial ELSE NotationBearing(request.identifier)
RefDistance ==
    IF request.op \in RadialOps THEN request.distance ELSE NotationDistance(request.identifier)

\* The catalogs get_radial_distance is told to search by the handler of the
\* request: one catalog with a flag set, all three with none.
SearchedKinds ==
    CASE request.op = "get_airport_radial" -> {"airport"}
      [] request.op = "get_navaid_radial" -> {"navaid"}
      [] request.op = "get_waypoint_radial" -> {"waypoint"}
      [] OTHER -> {"airport", "navaid", "waypoint"}

CatalogOf(kind) ==
    CASE kind = "airport" -> AIRPORTS
      [] kind = "navaid" -> NAVAIDS
      [] kind = "waypoint" -> FIXES

InRange(radial) == 0 <= radial /\ radial <= 360

\* The body of a successful projection from the entity ref of the kind.
ProjectionFrom(ref, kind, radial, distance) ==
    [reference |-> ref.identifier, type |-> kind, radial |-> radial,
     distance_nm |-> distance,
     latitude |-> calculate_destination(ref.latitude, ref.longitude, radial, distance)[1],
     longitude |-> calculate_destination(ref.latitude, ref.longitude, radial, distance)[2]]

-----------------------------------------------------------------------------
(* C1 *)

\* The kind that wins for the identifier under the order airport, navaid,
\* waypoint; "none" when no catalog holds it.
FirstKind(id) ==
    IF id \in DOMAIN AIRPORTS THEN "airport"
    ELSE IF id \in DOMAIN NAVAIDS THEN "navaid"
    ELSE IF id \in DOMAIN FIXES THEN "waypoint"
    ELSE "none"

\* C1: an 'any'-kind query consults airport, navaid, waypoint in that order
\* and the first catalog holding the identifier wins. The plain lookup of
\* get_point returns the airport when the identifier is an airport, else the
\* navaid when it is a navaid, else the waypoint; get_point_radial (and
\* get_point on the fix notation) finds the identifier when any catalog
\* holds it, and the projection it returns starts from the entity of that
\* same kind and reports it.
C1_AnyPrecedence ==
    /\ (request.op = "get_point" /\ IsPlainRequest) =>
          CASE FirstKind(ReqId) = "airport" -> response = Ok(AirportBody(AIRPORTS[ReqId]))
            [] FirstKind(ReqId) = "navaid" -> response = Ok(NavaidBody(NAVAIDS[ReqId]))
            [] FirstKind(ReqId) = "waypoint" -> response = Ok(FixBody(FIXES[ReqId]))
            [] OTHER -> TRUE
    /\ (/\ request.op \in {"get_point", "get_point_radial"}
        /\ IsProjectedRequest
        /\ FirstKind(RefId) # "none") =>
          /\ response.status # 404
          /\ response.status = 200 =>
                response = Ok(ProjectionFrom(CatalogOf(FirstKind(RefId))[RefId],
                                             FirstKind(RefId), RefRadial, RefDistance))

\* The identifier is in all three catalogs and the plain 'any' lookup
\* answered with the airport.
C1_Witness ==
    /\ request.op = "get_point" /\ IsPlainRequest
    /\ ReqId \in DOMAIN AIRPORTS /\ ReqId \in DOMAIN NAVAIDS /\ ReqId \in DOMAIN FIXES
    /\ response = Ok(AirportBody(AIRPORTS[ReqId]))

-----------------------------------------------------------------------------
(* C2 *)

\* The reference identifier is in none of the catalogs searched.
RefAbsent == \A kind \in SearchedKinds : RefId \notin DOMAIN CatalogOf(kind)

\* C2: in a projected lookup an identifier absent from the catalogs searched
\* gives 404 whatever the radial and the distance are, and 400 is only
\* returned when the reference was found.
C2_NotFoundBeforeInvalid ==
    IsProjectedRequest =>
        /\ RefAbsent => response.status = 404
        /\ response.status = 400 => ~RefAbsent

\* An absent reference asked for with a radial out of range and a negative
\* distance was answered 404.
C2_Witness ==
    /\ request.op \in RadialOps
    /\ RefAbsent
    /\ ~InRange(request.radial) /\ request.distance < 0
    /\ response.status = 404

-----------------------------------------------------------------------------
(* C3 *)

\* C3 as stated: with the reference found, a radial outside [0,360] gives 400
\* with the radial message, a distance < 0 gives 400 with the distance
\* message, neither carries a coordinate, and every radial in 0..360 with
\* every distance >= 0 succeeds.
C3_AsStated ==
    (IsProjectedRequest /\ ~RefAbsent) =>
        /\ ~InRange(RefRadial) => response = HTTPException(400, RadialDetail)
        /\ RefDistance < 0 => response = HTTPException(400, DistanceDetail)
        /\ (InRange(RefRadial) /\ RefDistance >= 0) => response.status = 200

\* The validation as the code does it: the radial is checked first. With the
\* reference found, a radial outside [0,360] gives 400 with the radial
\* message whatever the distance; a distance < 0 with a radial in [0,360]
\* gives 400 with the distance message; neither carries a coordinate; a
\* radial in 0..360 with a distance >= 0 is never refused, and succeeds when
\* the distance is finite.
C3_Validation ==
    (IsProjectedRequest /\ ~RefAbsent) =>
        /\ ~InRange(RefRadial) => response = HTTPException(400, RadialDetail)
        /\ (InRange(RefRadial) /\ RefDistance < 0) =>
              response = HTTPException(400, DistanceDetail)
        /\ (InRange(RefRadial) /\ RefDistance >= 0) =>
              /\ response.status # 400
              /\ RefDistance # inf => response.status = 200

\* A found reference, the radial 360 and a negative distance: refused with
\* the distance message.
C3_Witness ==
    /\ IsProjectedRequest /\ ~RefAbsent
    /\ RefRadial = 360 /\ RefDistance < 0
    /\ response = HTTPException(400, DistanceDetail)

-----------------------------------------------------------------------------
(* C4 *)

\* The outcome as the caller is given it: Ok with its body, NotFound, or
\* InvalidArgument with its message. The wording of a 404 is left out.
Outcome(resp) == IF resp.status = 404 THEN [status |-> 404] ELSE resp

\* C4: get_navaid on a token ID+BBB+DDD resolves ID in the navaid catalog
\* only: its outcome is that of the navaid projected lookup (ID, BBB, DDD).
C4_NavaidNotation ==
    (request.op = "get_navaid" /\ HasNotationShape(request.identifier)) =>
        Outcome(response) =
            Outcome(get_navaid_radial(NotationId(request.identifier),
                                      NotationBearing(request.identifier),
                                      NotationDistance(request.identifier)))

-----------------------------------------------------------------------------
(* C5 *)

\* C5: get_point on a token ID+BBB+DDD (ID of 2 to 5 letters, BBB and DDD of
\* three digits each) has the outcome of get_point_radial(ID, int(BBB),
\* int(DDD)).
C5_PointNotation ==
    (request.op = "get_point" /\ HasNotationShape(request.identifier)) =>
        response = get_point_radial(NotationId(request.identifier),
                                    NotationBearing(request.identifier),
                                    NotationDistance(request.identifier))

\* get_point answered a lower-case token in the fix notation with the
\* projection at radial 90 and distance 10.
C5_Witness ==
    /\ request.op = "get_point" /\ HasNotationShape(request.identifier)
    /\ ReqId # request.identifier
    /\ response.status = 200
    /\ response.body.radial = 90 /\ response.body.distance_nm = 10

-----------------------------------------------------------------------------
(* C7 *)

\* The kind whose catalog answers a lookup of the identifier among the
\* catalogs searched; "none" when none holds it.
KindFound(id) ==
    IF SearchedKinds = {"airport", "navaid", "waypoint"} THEN FirstKind(id)
    ELSE LET kind == CHOOSE k \in SearchedKinds : TRUE
         IN  IF id \in DOMAIN CatalogOf(kind) THEN kind ELSE "none"

\* C7: get_airport, get_waypoint and the four lookups with an explicit radial
\* and distance do not read the fix notation. A token that has its shape is
\* looked up whole as a catalog key: 404 unless that key is in a catalog
\* searched, and the radial and distance used are the explicit ones.
C7_NotationNotRead ==
    (/\ request.op \in {"get_airport", "get_waypoint"} \cup RadialOps
     /\ HasNotationShape(request.identifier)) =>
        /\ request.op = "get_airport" =>
              response = IF ReqId \in DOMAIN AIRPORTS
                         THEN Ok(AirportBody(AIRPORTS[ReqId]))
                         ELSE HTTPException(404, NotFoundDetail("Airport ", ReqId))
        /\ request.op = "get_waypoint" =>
              response = IF ReqId \in DOMAIN FIXES
                         THEN Ok(FixBody(FIXES[ReqId]))
                         ELSE HTTPException(404, NotFoundDetail("Waypoint ", ReqId))
        /\ request.op \in RadialOps =>
              IF KindFound(ReqId) = "none" THEN response.status = 404
              ELSE /\ response.status # 404
                   /\ (~InRange(request.radial) \/ request.distance < 0) =>
                         response.status = 400
                   /\ response.status = 200 =>
                         response = Ok(ProjectionFrom(CatalogOf(KindFound(ReqId))[ReqId],
                                                      KindFound(ReqId),
                                                      request.radial, request.distance))

\* An airport lookup with explicit radial and distance of a token in the fix
\* notation whose letters are an airport, the whole token not: 404.
C7_Witness ==
    /\ request.op = "get_airport_radial"
    /\ HasNotationShape(request.identifier)
    /\ upper(NotationId(request.identifier)) \in DOMAIN AIRPORTS
    /\ ReqId \notin DOMAIN AIRPORTS
    /\ response.status = 404

\* A token in the fix notation that is itself a key of the waypoint catalog
\* was found by get_waypoint.
C7_WitnessKey ==
    /\ request.op = "get_waypoint"
    /\ HasNotationShape(request.identifier)
    /\ ReqId \in DOMAIN FIXES
    /\ response = Ok(FixBody(FIXES[ReqId]))

-----------------------------------------------------------------------------
(* C8 *)

KindRestrictedOps ==
    {"get_airport", "get_waypoint", "get_navaid",
     "get_airport_radial", "get_waypoint_radial", "get_navaid_radial"}

KindOf(op) ==
    CASE op \in {"get_airport", "get_airport_radial"} -> "airport"
      [] op \in {"get_navaid", "get_navaid_radial"} -> "navaid"
      [] op \in {"get_waypoint", "get_waypoint_radial"} -> "waypoint"

PlainBody(kind, entity) ==
    CASE kind = "airport" -> AirportBody(entity)
      [] kind = "navaid" -> NavaidBody(entity)
      [] kind = "waypoint" -> FixBody(entity)

\* What C8 says of a kind-restricted lookup of the identifier.
KindRestrictedOutcome ==
    LET kind == KindOf(request.op)
        catalog == CatalogOf(kind)
    IN  /\ ReqId \notin DOMAIN catalog => response.status = 404
        /\ (ReqId \in DOMAIN catalog /\ request.op \in PlainOps) =>
              response = Ok(PlainBody(kind, catalog[ReqId]))
        /\ (ReqId \in DOMAIN catalog /\ request.op \in RadialOps) =>
              /\ response.status # 404
              /\ response.status = 200 =>
                    response = Ok(ProjectionFrom(catalog[ReqId], kind,
                                                 request.radial, request.distance))

\* C8: a kind-restricted query, plain or with explicit radial and distance,
\* consults the catalog of its kind only: 404 when the identifier is not in
\* it, whatever the other catalogs hold, and a result of that kind from that
\* catalog's entity otherwise.
C8_KindRestricted ==
    (/\ request.op \in KindRestrictedOps
     /\ (IsPlainRequest \/ request.op \in RadialOps)) => KindRestrictedOutcome

\* The same on every token that does not end in a newline.
C8_WithoutTrailingNewline ==
    (/\ request.op \in KindRestrictedOps
     /\ (IsPlainRequest \/ request.op \in RadialOps)
     /\ request.identifier[Len(request.identifier)] # "\n") => KindRestrictedOutcome

-----------------------------------------------------------------------------
(* C9 *)

\* C9: every lookup answers a token as it answers the token in upper case.
C9_CaseInsensitive ==
    /\ request.op = "get_airport" => response = get_airport(ReqId)
    /\ request.op = "get_waypoint" => response = get_waypoint(ReqId)
    /\ request.op = "get_navaid" => response = get_navaid(ReqId)
    /\ request.op = "get_point" => response = get_point(ReqId)
    /\ request.op = "get_airport_radial" =>
          response = get_airport_radial(ReqId, request.radial, request.distance)
    /\ request.op = "get_waypoint_radial" =>
          response = get_waypoint_radial(ReqId, request.radial, request.distance)
    /\ request.op = "get_navaid_radial" =>
          response = get_navaid_radial(ReqId, request.radial, request.distance)
    /\ request.op = "get_point_radial" =>
          response = get_point_radial(ReqId, request.radial, request.distance)

\* A waypoint was found under a token that is not in upper case.
C9_Witness ==
    /\ request.op = "get_waypoint"
    /\ ReqId # request.identifier
    /\ ReqId \in DOMAIN FIXES
    /\ response = Ok(FixBody(FIXES[ReqId]))

-----------------------------------------------------------------------------
(* C6 *)

\* The token written from (id, bearing, distance) is read back as that triple,
\* and in one way only.
ReadBack ==
    request.op = "resolve_made" =>
        /\ response = [matched |-> TRUE, nav_id |-> request.id,
                       radial |-> request.bearing, distance |-> request.distance]
        /\ Cardinality(GroupOneLengths(ReqId)) = 1

\* C6: the token written from an identifier of 2 to 5 upper-case letters, a
\* bearing in 0..359 and a distance in 0..999, each zero-padded to three
\* digits, is recognised and parses back to the same triple, the split being
\* unambiguous; a token that is not 2 to 5 letters followed by exactly six
\* digits is a plain identifier.
C6_RoundTripAndPlain ==
    /\ ReadBack
    /\ (request.op = "resolve_token" /\ ~HasNotationShape(request.identifier)) =>
          response = NoMatch

\* C6, the round trip alone.
C6_RoundTrip == ReadBack

-----------------------------------------------------------------------------
(* C10 *)

\* The keys a record is inserted under.
KeysOf(r) == {r.identifier} \cup (IF r.icao # <<>> THEN {r.icao} ELSE {})

\* The place in the airport file of the last record inserted under the key.
LastUnder(k) ==
    CHOOSE i \in 1..Len(aptFile.records) :
        /\ k \in KeysOf(aptFile.records[i])
        /\ \A j \in (i + 1)..Len(aptFile.records) : k \notin KeysOf(aptFile.records[j])

\* C10 as stated: once the airport catalog is built, the airport found under
\* any key is found, the same, under its own identifier.
C10_AsStated ==
    pc = "serving" =>
        \A k \in DOMAIN AIRPORTS :
            get_airport(get_airport(k).body.identifier) = get_airport(k)

\* C10 (amended): every key holds the last record inserted under it, and the
\* airport found under a key is found, the same, under its own identifier
\* when no later record of the file was inserted under that identifier.
C10_Aliasing ==
    pc = "serving" =>
        \A k \in DOMAIN AIRPORTS :
            /\ get_airport(k) = Ok(AirportBody(aptFile.records[LastUnder(k)]))
            /\ LastUnder(get_airport(k).body.identifier) = LastUnder(k) =>
                  get_airport(get_airport(k).body.identifier) = get_airport(k)

\* A catalog built from two records in which an airport is found under its
\* ICAO code and, the same, under its identifier.
C10_Witness ==
    /\ pc = "serving"
    /\ Len(aptFile.records) = 2
    /\ \E k \in DOMAIN AIRPORTS :
          /\ get_airport(k).body.identifier # k
          /\ get_airport(get_airport(k).body.identifier) = get_airport(k)

-----------------------------------------------------------------------------
(* C11 *)

\* What startup must leave in a catalog: the load result of a file that
\* exists, nothing for a file that is absent.
Expected(file, load_result) == IF file.exists THEN load_result ELSE EmptyCatalog

\* The steps of lifespan that have finished.
NavaidsDone == pc \in {"fix", "apt", "serving"}
FixesDone == pc \in {"apt", "serving"}
AirportsDone == pc = "serving"

\* C11: whichever of the three source files exist, startup is never stuck
\* before the service serves (its next step can always be taken), and each
\* catalog, once its step has run, is empty when its file is absent and is
\* its file's load result when the file exists, whatever the other two
\* files are.
C11_DegradeNotCrash ==
    /\ pc # "serving" =>
          ENABLED (lifespan_navaids \/ lifespan_fixes \/ lifespan_airports)
    /\ NavaidsDone => NAVAIDS = Expected(navFile, load_navaids(navFile.records))
    /\ FixesDone => FIXES = Expected(fixFile, load_fixes(fixFile.records))
    /\ AirportsDone => AIRPORTS = Expected(aptFile, load_airports(aptFile.records))

\* The service serves with the navaid file absent and the two other
\* catalogs loaded and not empty.
C11_Witness ==
    /\ pc = "serving"
    /\ ~navFile.exists /\ NAVAIDS = EmptyCatalog
    /\ fixFile.exists /\ FIXES # EmptyCatalog
    /\ aptFile.exists /\ AIRPORTS # EmptyCatalog
    /\ request.op = "get_waypoint" /\ response.status = 200

-----------------------------------------------------------------------------
(* C12 *)

AirportFields ==
    {"identifier", "icao", "name", "city", "state", "type", "latitude", "longitude"}
NavaidFields == {"identifier", "name", "type", "latitude", "longitude"}
FixFields == {"identifier", "type", "state", "latitude", "longitude"}
ProjectionFields ==
    {"reference", "type", "radial", "distance_nm", "latitude", "longitude"}
HealthFields == {"status", "navaid_count", "fix_count", "airport_count"}

\* Ok: the whole descriptor of one entity, or the whole result of a
\* projection with both coordinates computed; for health, its report.
IsOk(req, resp) ==
    /\ resp.status = 200
    /\ DOMAIN resp = {"status", "body"}
    /\ IF req.op = "health" THEN DOMAIN resp.body = HealthFields
       ELSE IF req.op \in RadialOps \/ "reference" \in DOMAIN resp.body
       THEN /\ DOMAIN resp.body = ProjectionFields
            /\ resp.body.type \in {"airport", "navaid", "waypoint"}
            /\ resp.body.latitude.coordinate = "dest_lat"
            /\ resp.body.longitude.coordinate = "dest_lon"
       ELSE DOMAIN resp.body \in {AirportFields, NavaidFields, FixFields}

\* NotFound: 404 and its message, nothing else.
IsNotFound(resp) ==
    /\ resp.status = 404
    /\ DOMAIN resp = {"status", "detail"}
    /\ DOMAIN resp.detail = {"prefix", "identifier", "suffix"}

\* InvalidArgument: 400 and one of the two messages, nothing else.
IsInvalidArgument(resp) ==
    /\ resp.status = 400
    /\ DOMAIN resp = {"status", "detail"}
    /\ resp.detail \in {RadialDetail, DistanceDetail}

OneOutcome(req, resp) == IsOk(req, resp) \/ IsNotFound(resp) \/ IsInvalidArgument(resp)

\* C12: every query, whatever its token, radial and distance and whatever
\* the catalogs hold, ends in Ok with a whole body, in NotFound, or in
\* InvalidArgument.
C12_OneOutcome == request # NoRequest => OneOutcome(request, response)

\* The same on the queries whose distance is finite.
C12_FiniteDistance ==
    (request # NoRequest /\ (request.op \in RadialOps => request.distance # inf)) =>
        OneOutcome(request, response)

\* A reference that is found, a radial in range and an infinite distance:
\* the query ended with the ValueError of calculate_destination.
C12_Unhandled ==
    /\ request.op \in RadialOps
    /\ ~RefAbsent /\ InRange(request.radial) /\ request.distance = inf
    /\ response = Unhandled(ValueError)

-----------------------------------------------------------------------------
(* The projector on its own *)

\* Bounds: how far, in units in the last place, a coordinate lies from its
\* multiple of 0.0000005 degrees, and how far the conversions displace it.
MaxUlps == 1
MaxDrift == 2

\* Latitudes and longitudes around 47.435278 and -122.309722, which have six
\* decimals, and around 47.0078125 and -122.0078125, which are floats half
\* way between two values of six decimals.
Latitudes ==
    {Float(h, u, e) : h \in {94870556, 94015625},
                      u \in -MaxUlps..MaxUlps, e \in -MaxDrift..MaxDrift}
Longitudes ==
    {Float(h, u, e) : h \in {-244619444, -244015625},
                      u \in -MaxUlps..MaxUlps, e \in -MaxDrift..MaxDrift}
Bearings == {0, 90, 360}
ProjectorDistances == {0, 10, inf}

\* calculate_destination on a coordinate, a bearing and a distance.
Project ==
    /\ Idle
    /\ \E lat \in Latitudes, lon \in Longitudes, b \in Bearings,
          d \in ProjectorDistances :
          Serve([op |-> "calculate_destination", lat |-> lat, lon |-> lon,
                 bearing |-> b, distance_nm |-> d],
                calculate_destination(lat, lon, b, d))

NextProjector == Project \/ Respond

SpecProjector == InitResolver /\ [][NextProjector]_vars

-----------------------------------------------------------------------------
(* C13 *)

\* A call of calculate_destination with a bearing in [0,360] and distance 0.
IsZeroDistanceCall ==
    /\ request.op = "calculate_destination"
    /\ InRange(request.bearing)
    /\ request.distance_nm = 0

\* The coordinate of the call, rounded to six decimals.
RoundedInput == <<round(request.lat), round(request.lon)>>
\* The coordinate returned.
Returned == <<response[1].rounded, response[2].rounded>>

\* C13: with distance 0 and a bearing in [0,360], calculate_destination
\* returns the coordinate it was given, rounded to six decimals.
C13_ZeroDistanceIdentity == IsZeroDistanceCall => Returned = RoundedInput

\* The same for the coordinates that are not half way between two values of
\* six decimals, coordinates of six decimals among them.
C13_AwayFromHalfWay ==
    (/\ IsZeroDistanceCall
     /\ request.lat.half_micro % 2 = 0
     /\ request.lon.half_micro % 2 = 0) => Returned = RoundedInput

\* The float 47.0078125, half way between 47.007812 and 47.007813, is
\* displaced upwards by the conversions and comes back as 47.007813, while
\* rounded as it is it gives 47.007812.
C13_HalfWay ==
    /\ IsZeroDistanceCall
    /\ request.lat = Float(94015625, 0, 1)
    /\ round(request.lat) = 47007812
    /\ response[1].rounded = 47007813

\* In the service: a projected lookup with distance 0 from an entity whose
\* coordinates have six decimals returns those coordinates.
C13_ProjectedZero ==
    (IsProjectedRequest /\ RefDistance = 0 /\ response.status = 200) =>
        LET ref == CatalogOf(response.body.type)[RefId]
        IN  /\ response.body.latitude.rounded = round(ref.latitude)
            /\ response.body.longitude.rounded = round(ref.longitude)

-----------------------------------------------------------------------------
(* C14 *)

\* The three catalogs are what startup leaves in them.
AllLoaded ==
    /\ NAVAIDS = Expected(navFile, load_navaids(navFile.records))
    /\ FIXES = Expected(fixFile, load_fixes(fixFile.records))
    /\ AIRPORTS = Expected(aptFile, load_airports(aptFile.records))

\* C14: the catalogs are loaded one after another, navaids, fixes, airports,
\* each still empty until its step, and a query is only ever handled once
\* lifespan has yielded: it finds all three catalogs loaded, none left empty
\* with its file existing, and the report of health is the one of the
\* loaded catalogs.
C14_LoadBeforeQuery ==
    /\ pc = "nav" => NAVAIDS = EmptyCatalog
    /\ pc \in {"nav", "fix"} => FIXES = EmptyCatalog
    /\ pc \in {"nav", "fix", "apt"} => AIRPORTS = EmptyCatalog
    /\ request # NoRequest =>
          /\ pc = "serving"
          /\ AllLoaded
          /\ request.op = "health" => response = health

\* A query answered with all three source files existing and all three
\* catalogs loaded and not empty.
C14_Witness ==
    /\ request.op = "get_point" /\ response.status = 200
    /\ navFile.exists /\ fixFile.exists /\ aptFile.exists
    /\ AllLoaded
    /\ NAVAIDS # EmptyCatalog /\ FIXES # EmptyCatalog /\ AIRPORTS # EmptyCatalog

-----------------------------------------------------------------------------
(* C15 *)

\* A step of a query: a handler taking a request, or its outcome being sent.
QueryStep == request # NoRequest \/ request' # NoRequest

\* C15: no step of a query, whichever the operation and whatever its outcome,
\* changes the navaid, the waypoint or the airport catalog; the catalogs are
\* only ever assigned by lifespan, before it yields.
C15_ReadOnly ==
    [][/\ QueryStep => (NAVAIDS' = NAVAIDS /\ FIXES' = FIXES /\ AIRPORTS' = AIRPORTS)
       /\ pc = "serving" => (NAVAIDS' = NAVAIDS /\ FIXES' = FIXES /\ AIRPORTS' = AIRPORTS)]_vars

\* A navaid lookup that ended in NotFound, with the navaid catalog still what
\* the load produced.
C15_Witness ==
    /\ request.op = "get_navaid" /\ response.status = 404
    /\ navFile.exists /\ NAVAIDS # EmptyCatalog
    /\ NAVAIDS = load_navaids(navFile.records)
    /\ upper(request.identifier) \notin DOMAIN NAVAIDS

-----------------------------------------------------------------------------
(* C16 *)

\* The records a catalog holds, each once however many keys it is under.
LoadedRecords(catalog) == {catalog[k] : k \in DOMAIN catalog}

\* C16: the three counts that health reports are the numbers of records
\* loaded into the navaid, the fix and the airport catalog, also when
\* airports are stored under their ICAO code as well.
C16_Counts ==
    request.op = "health" =>
        /\ response.body.navaid_count = Cardinality(LoadedRecords(NAVAIDS))
        /\ response.body.fix_count = Cardinality(LoadedRecords(FIXES))
        /\ response.body.airport_count = Cardinality(LoadedRecords(AIRPORTS))

\* The same for the two catalogs that have one key for each record.
C16_NavaidAndFixCounts ==
    request.op = "health" =>
        /\ response.body.navaid_count = Cardinality(LoadedRecords(NAVAIDS))
        /\ response.body.fix_count = Cardinality(LoadedRecords(FIXES))

\* One airport record with an ICAO code was loaded and health reports two
\* airports.
C16_CountsKeys ==
    /\ request.op = "health"
    /\ Len(aptFile.records) = 1
    /\ Cardinality(LoadedRecords(AIRPORTS)) = 1
    /\ response.body.airport_count = 2

====
